---- MODULE Spec2Model ----
(***************************************************************************)
(* Model of fanSpeed.py: a run of main() that resolves the fan target      *)
(* (CLI argument, weekend/holiday policy, first configuration entry) and   *)
(* then drives every configured BMC host in turn: login handshake,         *)
(* fan-mode PUT, per-fan duty PUTs, status GET.                            *)
(*                                                                         *)
(* Python values are encoded as follows.                                   *)
(*   - a string that the code inspects character by character (argv[1])    *)
(*     is a sequence of one-character strings;                             *)
(*   - `target` (None, 'auto' or an int) is a record [ty, n];              *)
(*   - a configuration entry (a dict) is a function whose DOMAIN is the    *)
(*     set of keys present;                                                *)
(*   - a token issued by the BMC at host h is the number 10*h + k, so the  *)
(*     issuing host of a token can be read back; 0 is the empty string     *)
(*     and Absent stands for a missing header or field.                    *)
(***************************************************************************)
EXTENDS Integers, Sequences, FiniteSets, TLC

MaxHosts == 2
MaxFans == 2

VARIABLES
    pc,            \* position in main()
    today,         \* the local date: [weekday, month, day]
    argv,          \* sys.argv
    file,          \* fanSpeed.json on disk
    is_holiday,    \* main: is_holiday
    configs,       \* main: configs
    target,        \* main: target
    i,             \* main: 1-based index of the host iteration
    controller,    \* main: controller (the FanController of this iteration)
    success_count, \* main: success_count
    exitCode,      \* process exit status (NoExit while running)
    sent,          \* history: requests sent to the BMC of this iteration
    loginResp,     \* history: what that BMC answered to the login handshake
    contacted,     \* history: every bmc_host any request was sent to
    attempted,     \* history: the configuration indices the loop has entered
    results        \* history: outcome of each finished host iteration

vars == <<pc, today, argv, file, is_holiday, configs, target, i, controller,
          success_count, exitCode, sent, loginResp, contacted, attempted,
          results>>

Absent == 0 - 1
NoExit == 0 - 1

-----------------------------------------------------------------------------
(* Python values *)

None == [ty |-> "none", n |-> 0]
Auto == [ty |-> "auto", n |-> 0]
PyInt(n) == [ty |-> "int", n |-> n]

Token(h, k) == 10 * h + k
TokenHost(t) == t \div 10

-----------------------------------------------------------------------------
(* Command line: get_fan_speed_input *)

lower(c) ==
    CASE c = "A" -> "a"
      [] c = "U" -> "u"
      [] c = "T" -> "t"
      [] c = "O" -> "o"
      [] OTHER -> c

Lower(s) == [k \in 1..Len(s) |-> lower(s[k])]

Digits == <<"0", "1", "2", "3", "4", "5", "6", "7", "8", "9">>

IsDigit(c) == \E d \in 1..10 : Digits[d] = c

DigitVal(c) == (CHOOSE d \in 1..10 : Digits[d] = c) - 1

RECURSIVE DecimalValue(_, _)
DecimalValue(s, acc) ==
    IF s = <<>> THEN acc ELSE DecimalValue(Tail(s), 10 * acc + DigitVal(Head(s)))

ValueError == [ok |-> FALSE, n |-> 0]

\* int(s) for a string of sign and digit characters
int(s) ==
    LET signed == s # <<>> /\ Head(s) \in {"-", "+"}
        body == IF signed THEN Tail(s) ELSE s
    IN  IF body = <<>> \/ \E k \in 1..Len(body) : ~IsDigit(body[k])
        THEN ValueError
        ELSE [ok |-> TRUE,
              n |-> IF signed /\ Head(s) = "-"
                    THEN 0 - DecimalValue(body, 0)
                    ELSE DecimalValue(body, 0)]

SysExit == [ty |-> "exit", n |-> 1]

\* get_fan_speed_input without the range test
get_fan_speed_input_norange(args) ==
    IF Len(args) > 1
    THEN IF Lower(args[2]) = <<"a", "u", "t", "o">>
         THEN Auto
         ELSE LET speed == int(args[2])
              IN  IF speed.ok THEN PyInt(speed.n) ELSE SysExit
    ELSE None

get_fan_speed_input(args) ==
    IF Len(args) > 1
    THEN IF Lower(args[2]) = <<"a", "u", "t", "o">>
         THEN Auto
         ELSE LET speed == int(args[2])
              IN  IF speed.ok /\ 0 <= speed.n /\ speed.n <= 100
                  THEN PyInt(speed.n)
                  ELSE SysExit
    ELSE None

-----------------------------------------------------------------------------
(* Date policy: is_weekend, is_chinese_holiday *)

\* is_weekend that takes Sunday only
is_weekend_sunday_only(d) == d.weekday > 5

is_weekend(d) == d.weekday >= 5

holidays ==
    {<<1, 1>>, <<1, 2>>, <<1, 3>>, <<4, 4>>, <<4, 5>>, <<5, 1>>, <<5, 2>>,
     <<5, 3>>, <<10, 1>>, <<10, 2>>, <<10, 3>>, <<10, 4>>, <<10, 5>>}

\* What the holiday lookup can produce: the request or the parse fails, or a
\* JSON object arrives whose status and type fields hold these values
\* (Absent: the field is missing).
LookupFailed == [failed |-> TRUE, status |-> Absent, type |-> Absent]

LookupResponses ==
    {LookupFailed} \cup
    [failed : {FALSE}, status : {Absent, 0, 1}, type : {Absent, 0, 1, 2}]

is_chinese_holiday(d, resp) ==
    IF ~resp.failed
    THEN resp.status = 1 /\ (resp.type = 2 \/ resp.type = 1)
    ELSE <<d.month, d.day>> \in holidays

-----------------------------------------------------------------------------
(* Configuration file: load_config *)

FileMissing == [kind |-> "missing", data |-> <<>>]
FileGarbage == [kind |-> "garbage", data |-> <<>>]
FileObject(e) == [kind |-> "object", data |-> <<e>>]
FileArray(es) == [kind |-> "array", data |-> es]

\* load_config that accepts an array only
load_config_array_only(f) ==
    IF f.kind = "array" THEN f.data ELSE <<>>

load_config(f) ==
    IF f.kind # "missing"
    THEN IF f.kind = "garbage"
         THEN <<>>
         ELSE IF f.kind = "array" THEN f.data ELSE <<f.data[1]>>
    ELSE <<>>

-----------------------------------------------------------------------------
(* Target resolution in main *)

\* target resolution that lets the date policy win over the command line
resolve_target_policy_first(cli, weekend, holiday, cfgs) ==
    IF weekend \/ holiday
    THEN Auto
    ELSE IF cli = None
         THEN IF cfgs # <<>> /\ "fan_speed" \in DOMAIN cfgs[1]
              THEN PyInt(cfgs[1]["fan_speed"])
              ELSE SysExit
         ELSE cli

resolve_target(cli, weekend, holiday, cfgs) ==
    IF cli = None
    THEN IF weekend \/ holiday
         THEN Auto
         ELSE IF cfgs # <<>> /\ "fan_speed" \in DOMAIN cfgs[1]
              THEN PyInt(cfgs[1]["fan_speed"])
              ELSE SysExit
    ELSE cli

-----------------------------------------------------------------------------
(* FanController *)

JsonHeaders == [content_type |-> "application/json", csrf |-> Absent, sid |-> Absent]

NoController ==
    [host |-> 0, username |-> "", password |-> "", fans_count |-> 0,
     headers |-> JsonHeaders]

RequiredKeys == {"bmc_host", "username", "password", "fans_count"}

\* __init__ that keeps the headers dict of the previous controller
FanControllerSharedHeaders(config) ==
    IF RequiredKeys \subseteq DOMAIN config
    THEN [ok |-> TRUE,
          obj |-> [host |-> config["bmc_host"],
                   username |-> config["username"],
                   password |-> config["password"],
                   fans_count |-> config["fans_count"],
                   headers |-> controller.headers]]
    ELSE [ok |-> FALSE, obj |-> NoController]

\* FanController.__init__: a missing key raises KeyError
FanController(config) ==
    IF RequiredKeys \subseteq DOMAIN config
    THEN [ok |-> TRUE,
          obj |-> [host |-> config["bmc_host"],
                   username |-> config["username"],
                   password |-> config["password"],
                   fans_count |-> config["fans_count"],
                   headers |-> JsonHeaders]]
    ELSE [ok |-> FALSE, obj |-> NoController]

\* One request as it leaves session.get/post/put: destination, body fields
\* and the headers of the controller at the time of the call; resp is the
\* outcome of the call as the caller sees it.
Request(ctl, method, path, fan, mode, duty, tag, resp) ==
    [host |-> ctl.host, method |-> method, path |-> path, fan |-> fan,
     mode |-> mode, duty |-> duty, tag |-> tag,
     content_type |-> ctl.headers.content_type,
     csrf |-> ctl.headers.csrf, sid |-> ctl.headers.sid, resp |-> resp]

(* get_random: GET /api/randomtag *)

RandomResponses(h) ==
    {[status |-> "error", random |-> Absent],
     [status |-> "ok", random |-> Absent],
     [status |-> "ok", random |-> Token(h, 3)]}

get_random(rnd) ==
    IF rnd.status = "ok" /\ rnd.random # Absent
    THEN [ok |-> TRUE, random |-> rnd.random]
    ELSE [ok |-> FALSE, random |-> Absent]

(* login: POST /api/session *)

\* One ';'-separated piece of a Set-Cookie value, already stripped: the text
\* before the first '=' and the '='-separated fields after it (none when the
\* piece holds no '=').
Piece(name, fields) == [name |-> name, fields |-> fields]

SetCookieValues(h) ==
    {<<Piece("lang", <<1>>)>>,
     <<Piece("SESSION", <<Token(h, 1)>>)>>,
     <<Piece("lang", <<1>>), Piece("QSESSIONID", <<Token(h, 1), 4>>), Piece("HttpOnly", <<>>)>>,
     <<Piece("SESSION", <<0>>), Piece("QSESSIONID", <<Token(h, 1)>>)>>,
     <<Piece("XSESSION", <<Token(h, 1)>>), Piece("SESSION", <<>>)>>}

SessionResponses(h) ==
    {[status |-> "error", set_cookie |-> <<>>, has_set_cookie |-> FALSE, csrf |-> Absent]}
    \cup [status : {"ok"}, set_cookie : {<<>>}, has_set_cookie : {FALSE},
          csrf : {Absent, Token(h, 2)}]
    \cup [status : {"ok"}, set_cookie : SetCookieValues(h), has_set_cookie : {TRUE},
          csrf : {Absent, Token(h, 2)}]

NoLogin ==
    [random |-> [status |-> "none", random |-> Absent],
     session |-> [status |-> "none", set_cookie |-> <<>>, has_set_cookie |-> FALSE,
                  csrf |-> Absent]]

IsSessionCookie(cookie) ==
    cookie.name \in {"SESSION", "QSESSIONID"} /\ Len(cookie.fields) >= 1

\* the for loop over cookies: the value of the first session cookie, or None
RECURSIVE scan_cookies(_)
scan_cookies(cookies) ==
    IF cookies = <<>> THEN Absent
    ELSE IF IsSessionCookie(Head(cookies)) THEN Head(cookies).fields[1]
    ELSE scan_cookies(Tail(cookies))

FormHeaders(hd) ==
    [hd EXCEPT !.content_type = "application/x-www-form-urlencoded; charset=UTF-8"]

\* login() that does not test for the CSRFToken field
login_no_csrf_check(ctl, rnd, post) ==
    LET r == get_random(rnd)
        get == Request(ctl, "GET", "randomtag", Absent, "", Absent, Absent, rnd.status)
        ctl2 == [ctl EXCEPT !.headers = FormHeaders(ctl.headers)]
        posted == Request(ctl2, "POST", "session", Absent, "", Absent, r.random, post.status)
        session_id == scan_cookies(post.set_cookie)
    IN  IF ~r.ok
        THEN [ok |-> FALSE, reqs |-> <<get>>, headers |-> ctl.headers]
        ELSE IF \/ post.status # "ok"
                \/ ~post.has_set_cookie
                \/ session_id = Absent \/ session_id = 0
        THEN [ok |-> FALSE, reqs |-> <<get, posted>>, headers |-> ctl2.headers]
        ELSE [ok |-> TRUE, reqs |-> <<get, posted>>,
              headers |-> [content_type |-> "application/json",
                           csrf |-> post.csrf, sid |-> session_id]]

\* login(): the requests it sends, the headers it leaves behind and whether
\* it returned (ok) or raised
login(ctl, rnd, post) ==
    LET r == get_random(rnd)
        get == Request(ctl, "GET", "randomtag", Absent, "", Absent, Absent, rnd.status)
        ctl2 == [ctl EXCEPT !.headers = FormHeaders(ctl.headers)]
        posted == Request(ctl2, "POST", "session", Absent, "", Absent, r.random, post.status)
        session_id == scan_cookies(post.set_cookie)
    IN  IF ~r.ok
        THEN [ok |-> FALSE, reqs |-> <<get>>, headers |-> ctl.headers]
        ELSE IF \/ post.status # "ok"
                \/ ~post.has_set_cookie
                \/ session_id = Absent \/ session_id = 0
                \/ post.csrf = Absent
        THEN [ok |-> FALSE, reqs |-> <<get, posted>>, headers |-> ctl2.headers]
        ELSE [ok |-> TRUE, reqs |-> <<get, posted>>,
              headers |-> [content_type |-> "application/json",
                           csrf |-> post.csrf, sid |-> session_id]]

(* set_fan_mode: PUT /api/settings/fans-mode *)

ModeResponses == {"ok", "error"}

set_fan_mode(ctl, mode, resp) ==
    [ok |-> resp = "ok",
     reqs |-> <<Request(ctl, "PUT", "fans-mode", Absent, mode, Absent, Absent, resp)>>]

(* set_fan_speed: PUT /api/settings/fan/{i} for i in range(fans_count) *)

\* 2xx with the duty echoed; 2xx whose body has no duty; a non-2xx status or
\* no answer at all
FanResponses == {"ok", "noduty", "error"}

RECURSIVE fan_loop(_, _, _, _, _)
fan_loop(ctl, speed, outcomes, k, acc) ==
    IF k >= ctl.fans_count THEN acc
    ELSE LET put == Request(ctl, "PUT", "fan", k, "", speed, Absent, outcomes[k + 1])
         IN  fan_loop(ctl, speed, outcomes, k + 1,
                      [reqs |-> Append(acc.reqs, put),
                       success_count |-> IF outcomes[k + 1] = "ok"
                                         THEN acc.success_count + 1
                                         ELSE acc.success_count])

\* set_fan_speed whose loop ends at the first fan that fails
RECURSIVE fan_loop_break(_, _, _, _, _)
fan_loop_break(ctl, speed, outcomes, k, acc) ==
    IF k >= ctl.fans_count THEN acc
    ELSE LET put == Request(ctl, "PUT", "fan", k, "", speed, Absent, outcomes[k + 1])
             reqs == Append(acc.reqs, put)
         IN  IF outcomes[k + 1] = "ok"
             THEN fan_loop_break(ctl, speed, outcomes, k + 1,
                                 [reqs |-> reqs, success_count |-> acc.success_count + 1])
             ELSE [reqs |-> reqs, success_count |-> acc.success_count]

set_fan_speed_break(ctl, speed, outcomes) ==
    fan_loop_break(ctl, speed, outcomes, 0, [reqs |-> <<>>, success_count |-> 0])

set_fan_speed(ctl, speed, outcomes) ==
    fan_loop(ctl, speed, outcomes, 0, [reqs |-> <<>>, success_count |-> 0])

(* get_fan_status: GET /api/status/fan_info *)

\* 2xx with a fans list; 2xx without one (a warning); anything that raises
StatusResponses == {"fans", "nofans", "error"}

get_fan_status(ctl, resp) ==
    [ok |-> resp # "error",
     reqs |-> <<Request(ctl, "GET", "fan_info", Absent, "", Absent, Absent,
                        IF resp = "error" THEN "error" ELSE "ok")>>]

-----------------------------------------------------------------------------
(* Inputs of a run *)

Prog == <<"f", "a", "n">>

NoArg == <<Prog>>
Arg(s) == <<Prog, s>>

\* auto, AUTO, 0, 55, 100, 101, -1, abc and the empty string
AllArgv ==
    {NoArg,
     Arg(<<"a", "u", "t", "o">>), Arg(<<"A", "U", "T", "O">>),
     Arg(<<"0">>), Arg(<<"5", "5">>), Arg(<<"1", "0", "0">>),
     Arg(<<"1", "0", "1">>), Arg(<<"-", "1">>), Arg(<<"a", "b", "c">>),
     Arg(<<>>)}

HostArgv == {NoArg, Arg(<<"a", "u", "t", "o">>), Arg(<<"5", "5">>)}

AllDates ==
    [weekday : 0..6, month : {1, 10}, day : {1, 5, 6}]

HostDates == {[weekday |-> 2, month |-> 6, day |-> 15]}

\* fan_speed values found in configuration entries
ConfigSpeeds == {30, 150}

Entry(k, fc) ==
    [bmc_host |-> k, username |-> "admin", password |-> "secret", fans_count |-> fc]

EntryWithSpeed(k, fc, s) ==
    [bmc_host |-> k, username |-> "admin", password |-> "secret", fans_count |-> fc,
     fan_speed |-> s]

\* an entry without a password
IncompleteEntry(k) ==
    [bmc_host |-> k, username |-> "admin", fans_count |-> 1]

Entries(k) ==
    {Entry(k, fc) : fc \in 0..MaxFans}
    \cup {EntryWithSpeed(k, MaxFans, s) : s \in ConfigSpeeds}
    \cup {IncompleteEntry(k)}

\* the arrays of n entries, the k-th naming host k
RECURSIVE Arrays(_)
Arrays(n) ==
    IF n = 0 THEN {<<>>}
    ELSE {Append(es, e) : es \in Arrays(n - 1), e \in Entries(n)}

HostFiles ==
    {FileArray(es) : es \in UNION {Arrays(n) : n \in 1..MaxHosts}}

PolicyFiles ==
    {FileMissing, FileGarbage, FileArray(<<>>),
     FileObject(Entry(1, 1)), FileObject(EntryWithSpeed(1, 1, 30)),
     FileArray(<<Entry(1, 1), EntryWithSpeed(2, 1, 30)>>)}

InitRun ==
    /\ pc = "start"
    /\ is_holiday = FALSE
    /\ configs = <<>>
    /\ target = None
    /\ i = 1
    /\ controller = NoController
    /\ success_count = 0
    /\ exitCode = NoExit
    /\ sent = <<>>
    /\ loginResp = NoLogin
    /\ contacted = {}
    /\ attempted = <<>>
    /\ results = <<>>

Init ==
    /\ today \in HostDates
    /\ argv \in HostArgv
    /\ file \in HostFiles
    /\ InitRun

InitPolicy ==
    /\ today \in AllDates
    /\ argv \in AllArgv
    /\ file \in PolicyFiles
    /\ InitRun

-----------------------------------------------------------------------------
(* main *)

Env == <<today, argv, file>>

Hist == <<sent, loginResp, contacted, attempted>>

\* is_holiday = is_chinese_holiday()
IsChineseHoliday ==
    /\ pc = "start"
    /\ \E resp \in LookupResponses : is_holiday' = is_chinese_holiday(today, resp)
    /\ pc' = "load"
    /\ UNCHANGED <<Env, configs, target, i, controller, success_count, exitCode,
                   Hist, results>>

\* configs = load_config()
LoadConfig ==
    /\ pc = "load"
    /\ configs' = load_config(file)
    /\ pc' = "input"
    /\ UNCHANGED <<Env, is_holiday, target, i, controller, success_count, exitCode,
                   Hist, results>>

\* target = get_fan_speed_input(); its sys.exit(1) ends the process
GetFanSpeedInput ==
    /\ pc = "input"
    /\ LET t == get_fan_speed_input(argv)
       IN  IF t = SysExit
           THEN /\ pc' = "exit"
                /\ exitCode' = 1
                /\ UNCHANGED target
           ELSE /\ pc' = "resolve"
                /\ target' = t
                /\ UNCHANGED exitCode
    /\ UNCHANGED <<Env, is_holiday, configs, i, controller, success_count,
                   Hist, results>>

\* if target is None: ... else the target stays
ResolveTarget ==
    /\ pc = "resolve"
    /\ LET t == resolve_target(target, is_weekend(today), is_holiday, configs)
       IN  IF t = SysExit
           THEN /\ pc' = "exit"
                /\ exitCode' = 1
                /\ UNCHANGED target
           ELSE /\ pc' = "loop"
                /\ target' = t
                /\ UNCHANGED exitCode
    /\ UNCHANGED <<Env, is_holiday, configs, i, controller, success_count,
                   Hist, results>>

\* a handler that ends the run instead of continuing
HostFailureAbort ==
    /\ results' = Append(results, "failed")
    /\ i' = i
    /\ pc' = "exit"

\* except Exception: log, continue with the next configuration
HostFailure ==
    /\ results' = Append(results, "failed")
    /\ i' = i + 1
    /\ pc' = "loop"

\* the next iteration of the for loop up to controller = FanController(config)
NextHost ==
    /\ pc = "loop"
    /\ i <= Len(configs)
    /\ sent' = <<>>
    /\ loginResp' = NoLogin
    /\ success_count' = 0
    /\ attempted' = Append(attempted, i)
    /\ LET c == FanController(configs[i])
       IN  IF c.ok
           THEN /\ controller' = c.obj
                /\ pc' = "login"
                /\ UNCHANGED <<i, results>>
           ELSE /\ HostFailure
                /\ UNCHANGED controller
    /\ UNCHANGED <<Env, is_holiday, configs, target, exitCode, contacted>>

\* controller.login()
Login ==
    /\ pc = "login"
    /\ \E rnd \in RandomResponses(controller.host),
          post \in SessionResponses(controller.host) :
          LET l == login(controller, rnd, post)
          IN  /\ sent' = sent \o l.reqs
              /\ loginResp' = [random |-> rnd,
                               session |-> IF Len(l.reqs) = 2 THEN post
                                           ELSE NoLogin.session]
              /\ controller' = [controller EXCEPT !.headers = l.headers]
              /\ IF l.ok
                 THEN pc' = "mode" /\ UNCHANGED <<i, results>>
                 ELSE HostFailure
    /\ contacted' = contacted \cup {controller.host}
    /\ UNCHANGED <<Env, is_holiday, configs, target, success_count, exitCode, attempted>>

\* controller.set_fan_mode("auto") or controller.set_fan_mode("manual")
SetFanMode ==
    /\ pc = "mode"
    /\ \E resp \in ModeResponses :
          LET m == set_fan_mode(controller, IF target = Auto THEN "auto" ELSE "manual", resp)
          IN  /\ sent' = sent \o m.reqs
              /\ IF m.ok
                 THEN /\ pc' = IF target = Auto THEN "status" ELSE "speed"
                      /\ UNCHANGED <<i, results>>
                 ELSE HostFailure
    /\ contacted' = contacted \cup {controller.host}
    /\ UNCHANGED <<Env, is_holiday, configs, target, controller, success_count,
                   exitCode, loginResp, attempted>>

\* the resolved target for every host
current_speed_target_only(config, t) == t.n

\* the speed this host is driven with
current_speed(config, t) ==
    IF "fan_speed" \in DOMAIN config THEN config["fan_speed"] ELSE t.n

\* success_count = controller.set_fan_speed(current_speed)
SetFanSpeed ==
    /\ pc = "speed"
    /\ \E outcomes \in [1..controller.fans_count -> FanResponses] :
          LET f == set_fan_speed(controller, current_speed(configs[i], target), outcomes)
          IN  /\ sent' = sent \o f.reqs
              /\ success_count' = f.success_count
              /\ contacted' = IF f.reqs = <<>> THEN contacted
                              ELSE contacted \cup {controller.host}
    /\ pc' = "status"
    /\ UNCHANGED <<Env, is_holiday, configs, target, i, controller, exitCode,
                   loginResp, attempted, results>>

\* controller.get_fan_status(), the end of the iteration
GetFanStatus ==
    /\ pc = "status"
    /\ \E resp \in StatusResponses :
          LET g == get_fan_status(controller, resp)
          IN  /\ sent' = sent \o g.reqs
              /\ IF g.ok
                 THEN /\ results' = Append(results, "ok")
                      /\ i' = i + 1
                      /\ pc' = "loop"
                 ELSE HostFailure
    /\ contacted' = contacted \cup {controller.host}
    /\ UNCHANGED <<Env, is_holiday, configs, target, controller, success_count,
                   exitCode, loginResp, attempted>>

\* the loop is over: main returns and the process exits 0
Finish ==
    /\ pc = "loop"
    /\ i > Len(configs)
    /\ pc' = "done"
    /\ exitCode' = 0
    /\ UNCHANGED <<Env, is_holiday, configs, target, i, controller, success_count,
                   Hist, results>>

Next ==
    \/ IsChineseHoliday
    \/ LoadConfig
    \/ GetFanSpeedInput
    \/ ResolveTarget
    \/ NextHost
    \/ Login
    \/ SetFanMode
    \/ SetFanSpeed
    \/ GetFanStatus
    \/ Finish

Spec == Init /\ [][Next]_vars

SpecPolicy == InitPolicy /\ [][Next]_vars

TypeOK ==
    /\ pc \in {"start", "load", "input", "resolve", "loop", "login", "mode", "speed",
               "status", "done", "exit"}
    /\ is_holiday \in BOOLEAN
    /\ target.ty \in {"none", "auto", "int"}
    /\ i \in 1..(Len(configs) + 1)
    /\ exitCode \in {NoExit, 0, 1}
    /\ Len(results) <= Len(configs)

-----------------------------------------------------------------------------
(* Properties *)

BeforeLoop == pc \in {"start", "load", "input", "resolve"}

InIteration == pc \in {"login", "mode", "speed", "status"}

Terminated == pc \in {"done", "exit"}

Weekend == today.weekday \in {5, 6}

\* What the command line asks for, argument by argument: no argument, a valid
\* target, or an invalid argument.
CliTarget ==
    CASE argv = NoArg -> None
      [] argv = Arg(<<"a", "u", "t", "o">>) -> Auto
      [] argv = Arg(<<"A", "U", "T", "O">>) -> Auto
      [] argv = Arg(<<"0">>) -> PyInt(0)
      [] argv = Arg(<<"5", "5">>) -> PyInt(55)
      [] argv = Arg(<<"1", "0", "0">>) -> PyInt(100)
      [] OTHER -> SysExit

InvalidCli == CliTarget = SysExit

FirstEntryHasSpeed == configs # <<>> /\ "fan_speed" \in DOMAIN configs[1]

Unresolvable ==
    CliTarget = None /\ ~Weekend /\ ~is_holiday /\ ~FirstEntryHasSpeed

IsFanPut(r) == r.path = "fan"

IsModePut(r) == r.path = "fans-mode"

IsStatusGet(r) == r.path = "fan_info"

FanPuts == SelectSeq(sent, IsFanPut)

ModePuts == SelectSeq(sent, IsModePut)

\* the configuration entry the requests in sent belong to
CurrentConfig == configs[attempted[Len(attempted)]]

\* C1: a failure anywhere in one host's sequence is caught at the iteration
\* boundary: the loop enters the configuration entries 1, 2, ... in order, each
\* once, records one result per entry, never ends the process before the last
\* entry, and a run that reaches the end has entered every entry.
C1_FailureIsolation ==
    /\ attempted = [k \in 1..Len(attempted) |-> k]
    /\ Len(attempted) <= Len(configs)
    /\ Len(results) = IF InIteration THEN Len(attempted) - 1 ELSE Len(attempted)
    /\ pc = "exit" => attempted = <<>>
    /\ pc = "done" => Len(attempted) = Len(configs)

C1_Witness ==
    /\ pc = "done"
    /\ Len(results) = 2
    /\ results[1] = "failed"
    /\ results[2] = "ok"

\* the BMC answered the whole handshake: a random tag, then a session
\* response carrying a SESSION or QSESSIONID cookie and a CSRFToken
LoginCompleted ==
    /\ loginResp.random.status = "ok"
    /\ loginResp.random.random # Absent
    /\ loginResp.session.status = "ok"
    /\ loginResp.session.has_set_cookie
    /\ \E k \in 1..Len(loginResp.session.set_cookie) :
          /\ loginResp.session.set_cookie[k].name \in {"SESSION", "QSESSIONID"}
          /\ loginResp.session.set_cookie[k].fields # <<>>
    /\ loginResp.session.csrf # Absent

\* C2: every fan-mode, fan-speed or status request to a host comes after the
\* two login requests to that host, and is sent only if the login completed.
C2_LoginBeforeRequests ==
    \A k \in 1..Len(sent) :
        sent[k].path \in {"fans-mode", "fan", "fan_info"} =>
            /\ k > 2
            /\ sent[1].path = "randomtag" /\ sent[1].host = sent[k].host
            /\ sent[2].path = "session" /\ sent[2].host = sent[k].host
            /\ sent[2].tag = loginResp.random.random
            /\ LoginCompleted

C2_Witness ==
    /\ Len(sent) >= 3
    /\ sent[3].path = "fans-mode"
    /\ LoginCompleted

ManualModeSet ==
    /\ target # Auto
    /\ \E k \in 1..Len(sent) : IsModePut(sent[k]) /\ sent[k].resp = "ok"

\* C3: once set_fan_speed has run for a host, exactly fans_count duty PUTs
\* have been sent, for the fan indices 0..fans_count-1 in order, whatever each
\* answered; the iteration was not failed by it; and success_count is the
\* number of those PUTs that succeeded (2xx echoing the duty), at most
\* fans_count.
C3_FanSpeedCalls ==
    (ManualModeSet /\ pc # "speed") =>
        /\ Len(FanPuts) = controller.fans_count
        /\ \A k \in 1..Len(FanPuts) : FanPuts[k].fan = k - 1
        /\ success_count = Cardinality({k \in 1..Len(FanPuts) : FanPuts[k].resp = "ok"})
        /\ success_count <= controller.fans_count
        /\ pc = "status" => Len(results) = Len(attempted) - 1

C3_Witness ==
    /\ pc = "status"
    /\ ManualModeSet
    /\ Len(FanPuts) = 2
    /\ FanPuts[1].resp # "ok"
    /\ FanPuts[2].resp = "ok"
    /\ success_count = 1

\* C4: the process exits 0 once every host has been attempted, whatever
\* failed; it exits non-zero exactly when the CLI argument is invalid or the
\* target cannot be resolved, and then no request went to any BMC.
C4_ExitStatus ==
    /\ ~Terminated => exitCode = NoExit
    /\ pc = "done" =>
          /\ exitCode = 0
          /\ Len(attempted) = Len(configs)
          /\ ~InvalidCli /\ ~Unresolvable
    /\ pc = "exit" =>
          /\ exitCode = 1
          /\ InvalidCli \/ Unresolvable
          /\ contacted = {} /\ sent = <<>> /\ attempted = <<>>

C4_Witness ==
    /\ pc = "done"
    /\ exitCode = 0
    /\ Len(results) = 2
    /\ results[1] = "failed"
    /\ results[2] = "failed"
    /\ contacted = {1, 2}

\* C5: a valid CLI target is the resolved target whatever the date says;
\* without one the target is auto on a weekend or holiday, else the fan_speed
\* of the first configuration entry, and the process exits non-zero when that
\* value does not exist.
C5_TargetResolution ==
    ~BeforeLoop /\ ~InvalidCli =>
        IF CliTarget # None THEN pc # "exit" /\ target = CliTarget
        ELSE IF Weekend \/ is_holiday THEN pc # "exit" /\ target = Auto
        ELSE IF FirstEntryHasSpeed
             THEN pc # "exit" /\ target = PyInt(configs[1]["fan_speed"])
             ELSE pc = "exit" /\ exitCode = 1

C5_Witness ==
    /\ pc = "loop"
    /\ argv = Arg(<<"5", "5">>)
    /\ Weekend
    /\ is_holiday
    /\ target = PyInt(55)

\* C6: every duty value sent in a PUT /api/settings/fan/{index} request lies
\* in 0..100.
C6_DutyInRange ==
    \A k \in 1..Len(sent) : IsFanPut(sent[k]) => sent[k].duty \in 0..100

\* C7: every request goes to the host of the controller of this iteration,
\* and the session id and CSRF token in its headers, when present, were issued
\* by that host.
C7_SessionIsolation ==
    \A k \in 1..Len(sent) :
        /\ sent[k].host = controller.host
        /\ sent[k].sid # Absent => TokenHost(sent[k].sid) = sent[k].host
        /\ sent[k].csrf # Absent => TokenHost(sent[k].csrf) = sent[k].host

C7_Witness ==
    /\ Len(results) = 1
    /\ results[1] = "ok"
    /\ Len(sent) >= 3
    /\ sent[1].host = 2
    /\ sent[1].sid = Absent
    /\ sent[3].sid = Token(2, 1)
    /\ sent[3].csrf = Token(2, 2)

LoadedAsSpecified ==
    ~(pc \in {"start", "load"}) =>
        /\ file.kind = "object" => Len(configs) = 1 /\ configs[1] = file.data[1]
        /\ file.kind = "array" => configs = file.data
        /\ file.kind \in {"missing", "garbage"} => configs = <<>>

\* C8 as stated: load_config yields a one-element list for a single object
\* and an empty list for a missing or unparsable file, and with an empty list
\* the run contacts no host and does not fail.
C8_EmptyConfigNeverFails ==
    /\ LoadedAsSpecified
    /\ (~(pc \in {"start", "load"}) /\ configs = <<>>) =>
          /\ contacted = {}
          /\ pc # "exit"

\* C8 amended: load_config yields a one-element list for a single object and
\* an empty list for a missing or unparsable file; with an empty list the run
\* contacts no host, and it exits 0 if a valid CLI target is given or if no
\* argument is given on a weekend or holiday, and non-zero otherwise.
C8_EmptyConfig ==
    /\ LoadedAsSpecified
    /\ (~(pc \in {"start", "load"}) /\ configs = <<>>) =>
          /\ contacted = {} /\ sent = <<>>
          /\ pc = "done" => exitCode = 0
          /\ pc = "exit" => exitCode = 1
          /\ Terminated =>
                (pc = "done" <=>
                    \/ CliTarget \in {Auto, PyInt(0), PyInt(55), PyInt(100)}
                    \/ CliTarget = None /\ (Weekend \/ is_holiday))

C8_Witness ==
    /\ file = FileMissing
    /\ configs = <<>>
    /\ pc = "done"
    /\ exitCode = 0
    /\ argv = NoArg

\* C9: on a Saturday or Sunday the weekend-or-holiday decision is true
\* whatever the holiday lookup answered or the table holds: without a CLI
\* argument the run resolves the target to auto and does not exit.
C9_WeekendDecision ==
    (~BeforeLoop /\ Weekend /\ argv = NoArg) => pc # "exit" /\ target = Auto

C9_Witness ==
    /\ ~BeforeLoop
    /\ today.weekday = 5
    /\ ~is_holiday
    /\ argv = NoArg
    /\ target = Auto

\* C10: for the host of this iteration: with target auto the only mode PUT
\* says auto and no duty PUT is sent; otherwise a mode PUT saying manual
\* precedes every duty PUT and each duty PUT carries the host's fan_speed if
\* it has one, else the target; a status GET is the last request, and it is
\* sent once the mode PUT succeeded whatever the duty PUTs answered; after a
\* failed mode PUT neither a duty PUT nor a status GET is sent.
C10_RequestSequence ==
    /\ Len(ModePuts) <= 1
    /\ \A k \in 1..Len(sent) :
          /\ IsModePut(sent[k]) =>
                sent[k].mode = IF target = Auto THEN "auto" ELSE "manual"
          /\ IsFanPut(sent[k]) =>
                /\ target # Auto
                /\ \E j \in 1..(k - 1) : IsModePut(sent[j]) /\ sent[j].mode = "manual"
                /\ sent[k].duty = IF "fan_speed" \in DOMAIN CurrentConfig
                                  THEN CurrentConfig["fan_speed"]
                                  ELSE target.n
          /\ IsStatusGet(sent[k]) => k = Len(sent)
          /\ (IsModePut(sent[k]) /\ sent[k].resp # "ok") => k = Len(sent)
    /\ (pc \in {"mode", "speed", "status"} \/ (~InIteration /\ Len(sent) > 2)) =>
          Len(ModePuts) = IF pc = "mode" THEN 0 ELSE 1
    /\ (~InIteration /\ \E k \in 1..Len(sent) : IsModePut(sent[k]) /\ sent[k].resp = "ok") =>
          IsStatusGet(sent[Len(sent)])

C10_Witness ==
    /\ pc = "loop"
    /\ target = PyInt(55)
    /\ Len(FanPuts) = 2
    /\ FanPuts[1].duty = 30
    /\ FanPuts[1].resp # "ok"
    /\ FanPuts[2].resp # "ok"
    /\ IsStatusGet(sent[Len(sent)])

====
